---- MODULE Spec2Model ----
(***************************************************************************)
(* Country Farm Matugga back office: the ledger of customer purchases      *)
(* (routes/sales.ts, routes/customers.ts), the flock head count            *)
(* (routes/poultry.ts) and the public order channel (routes/orders.ts),    *)
(* over the SQLite schema of db/schema.ts.                                  *)
(*                                                                         *)
(* better-sqlite3 is synchronous: a handler without an await runs from its *)
(* first statement to its response with no other handler in between, so    *)
(* each such handler is one action.  Every db.prepare(...).run(...) is its *)
(* own autocommit statement (no handler below opens a transaction), and    *)
(* any of them may throw; the handler's catch then answers 500 and what    *)
(* the earlier statements wrote stays written.  The parameter `fail` of an *)
(* action names the statement that throws ("none": no statement does).     *)
(***************************************************************************)
EXTENDS Integers, Sequences, FiniteSets, TLC

VARIABLES
    customers,       \* customers table: id -> [name, total_purchases]
    nextCustomerId,  \* AUTOINCREMENT of customers.id
    sales,           \* sales table: id -> row
    nextSaleId,      \* AUTOINCREMENT of sales.id
    credited,        \* history: sale ids whose amount the UPDATE of POST /sales added
    debited,         \* history: sale ids whose amount the UPDATE of DELETE /sales/:id subtracted
    batches,         \* poultry_batches table: id -> row
    nextBatchId,     \* AUTOINCREMENT of poultry_batches.id
    health,          \* health_records table: id -> row
    nextHealthId,    \* AUTOINCREMENT of health_records.id
    subtracted,      \* history: health record ids whose mortality the UPDATE of POST /health subtracted
    adjusted,        \* history: batch ids PUT /batches/:id has written
    orders,          \* orders table: id -> row
    nextOrderId,     \* AUTOINCREMENT of orders.id
    now,             \* the last value Date.now() returned
    awaitingEmail,   \* POST /orders handlers suspended at `await sendOrderEmail`: their local `order`
    statusBefore,    \* history: the status the row had before the last UPDATE of PUT /orders/:id/status that matched one
    settings,        \* site_settings table: setting_key -> setting_value
    handlers,        \* the handlers of /sales in flight, statement by statement: request -> [op, pc, ...]
    users,           \* users table: id -> [email, full_name]
    nextUserId,      \* AUTOINCREMENT of users.id
    hashing,         \* POST /register handlers suspended at `await bcrypt.hash`: body -> how many
    activityRows,    \* egg_production, sales and health_records as GET /activities reads them: [egg, sale, health]
    feed,            \* the last GET /activities: its limit query and the body answered
    resp,            \* the last response sent: [op, status, logged]
    faults           \* the number of statements that have thrown a storage error so far

salesVars == <<customers, nextCustomerId, sales, nextSaleId, credited, debited>>
poultryVars == <<batches, nextBatchId, health, nextHealthId, subtracted, adjusted>>
orderVars == <<orders, nextOrderId, now, awaitingEmail, statusBefore>>
userVars == <<users, nextUserId, hashing>>
feedVars == <<activityRows, feed>>
\* What the handlers of the ledger, the flock, the orders and the settings
\* never touch.
otherVars == <<handlers, userVars, feedVars>>
vars == <<salesVars, poultryVars, orderVars, settings, otherVars, resp, faults>>

(***************************************************************************)
(* Bounds of the model.                                                    *)
(***************************************************************************)
MaxSales == 2
MaxFaults == 1

\* Request values.  0 stands for every falsy number JavaScript's `!x` rejects
\* (0, undefined, null); "" for every falsy string.
CustomerIds == {1, 2}
Quantities == {-1, 0, 2}
UnitPrices == {0, 3}
ClientTotals == {0, 7}
PaymentStatuses == {"pending", "partial", "paid"}
PaymentInputs == {"", "partial", "bogus"}
\* paymentStatus of PUT /sales/:id, which binds it as it comes
PaymentUpdates == {"partial", "bogus"}

FalsyNumber(x) == x = 0
FalsyString(x) == x = ""

\* The statement `fail` names throws a storage error (SQLITE_IOERR, SQLITE_FULL,
\* SQLITE_BUSY ...): counted, so that the model stays finite.
Throws(fail) ==
    /\ IF fail = "none" THEN faults' = faults ELSE faults' = faults + 1
    /\ fail # "none" => faults < MaxFaults

Response(op, status, logged) == [op |-> op, status |-> status, logged |-> logged]

\* The rows of table `t` (a function on its ids) with one more row / one row less.
Insert(t, id, row) == [i \in DOMAIN t \cup {id} |-> IF i = id THEN row ELSE t[i]]
Delete(t, id) == [i \in DOMAIN t \ {id} |-> t[i]]

RECURSIVE SumOver(_, _)
\* The sum of f[i] over the ids i of S
SumOver(f, S) ==
    IF S = {} THEN 0
    ELSE LET i == CHOOSE x \in S : TRUE
         IN  f[i] + SumOver(f, S \ {i})

(***************************************************************************)
(* Customers (routes/customers.ts)                                         *)
(***************************************************************************)
\* POST /customers: total_purchases takes the column default 0.
CreateCustomer ==
    /\ nextCustomerId \in CustomerIds
    /\ customers' = Insert(customers, nextCustomerId, [name |-> "Amina", total_purchases |-> 0])
    /\ nextCustomerId' = nextCustomerId + 1
    /\ resp' = Response("CreateCustomer", 201, "none")
    /\ UNCHANGED <<sales, nextSaleId, credited, debited, poultryVars, orderVars, settings, faults, otherVars>>

\* name of PUT /customers/:id: <<>> when the body has none (bound as NULL)
CustomerNameInputs == {<<>>, <<"Amina K">>}

\* An edit that writes the whole row back, the counter at its column default
UpdateCustomerResetting(id, name) ==
    /\ UNCHANGED <<nextCustomerId, sales, nextSaleId, credited, debited, poultryVars,
                   orderVars, settings, faults, otherVars>>
    /\ IF id \in DOMAIN customers /\ name = <<>>
       THEN /\ resp' = Response("UpdateCustomer", 500, "SQLITE_CONSTRAINT_NOTNULL")
            /\ UNCHANGED customers
       ELSE /\ customers' = [c \in DOMAIN customers |->
                               IF c = id THEN [name |-> name[1], total_purchases |-> 0]
                               ELSE customers[c]]
            /\ resp' = Response("UpdateCustomer", 200, "none")

\* PUT /customers/:id.  name TEXT NOT NULL refuses the NULL of a missing name
\* when the id matches a row.
UpdateCustomer(id, name) ==
    /\ UNCHANGED <<nextCustomerId, sales, nextSaleId, credited, debited, poultryVars,
                   orderVars, settings, faults, otherVars>>
    /\ IF id \in DOMAIN customers /\ name = <<>>
       THEN /\ resp' = Response("UpdateCustomer", 500, "SQLITE_CONSTRAINT_NOTNULL")
            /\ UNCHANGED customers
       ELSE /\ customers' = [c \in DOMAIN customers |->
                               IF c = id THEN [customers[c] EXCEPT !.name = name[1]]
                               ELSE customers[c]]
            /\ resp' = Response("UpdateCustomer", 200, "none")

\* DELETE /customers/:id.  sales.customer_id REFERENCES customers(id), and
\* better-sqlite3 enforces foreign keys by default: the delete of a customer a
\* sale still references is refused.
DeleteCustomer(id) ==
    /\ IF \E s \in DOMAIN sales : sales[s].customer_id = id
       THEN /\ resp' = Response("DeleteCustomer", 500, "SQLITE_CONSTRAINT_FOREIGNKEY")
            /\ UNCHANGED customers
       ELSE /\ customers' = Delete(customers, id)
            /\ resp' = Response("DeleteCustomer", 200, "none")
    /\ UNCHANGED <<nextCustomerId, sales, nextSaleId, credited, debited, poultryVars,
                   orderVars, settings, faults, otherVars>>

(***************************************************************************)
(* Sales (routes/sales.ts)                                                 *)
(***************************************************************************)
SaleTotalFromClient(quantity, unitPrice, clientTotal) == clientTotal

\* const totalAmount = quantity * unitPrice
SaleTotal(quantity, unitPrice, clientTotal) == quantity * unitPrice

SaleRow(customerId, quantity, unitPrice, clientTotal, paymentStatus) ==
    [customer_id |-> customerId,
     quantity |-> quantity,
     unit_price |-> unitPrice,
     total_amount |-> SaleTotal(quantity, unitPrice, clientTotal),
     payment_status |-> IF FalsyString(paymentStatus) THEN "pending" ELSE paymentStatus]

\* An UPDATE that writes back a total computed from the value the handler read
\* when the customer had bought nothing yet
AddPurchasesWritingBack(c, id, amount) ==
    [i \in DOMAIN c |->
        IF i = id THEN [c[i] EXCEPT !.total_purchases = 0 + amount] ELSE c[i]]

\* UPDATE customers SET total_purchases = total_purchases + ? WHERE id = ?
AddPurchases(c, id, amount) ==
    [i \in DOMAIN c |->
        IF i = id THEN [c[i] EXCEPT !.total_purchases = @ + amount] ELSE c[i]]

InvalidSaleFreeOfCharge(customerId, quantity, unitPrice) ==
    FalsyNumber(customerId) \/ FalsyNumber(quantity)

\* if (!customerId || !saleDate || !saleType || !quantity || !unitPrice); the
\* requests here carry a saleDate and a saleType
InvalidSale(customerId, quantity, unitPrice) ==
    FalsyNumber(customerId) \/ FalsyNumber(quantity) \/ FalsyNumber(unitPrice)

\* POST /sales
RecordSale(customerId, quantity, unitPrice, clientTotal, paymentStatus, fail) ==
    LET row == SaleRow(customerId, quantity, unitPrice, clientTotal, paymentStatus)
        id == nextSaleId
        refused == \/ customerId \notin DOMAIN customers
                   \/ row.payment_status \notin PaymentStatuses
    IN
    /\ nextSaleId <= MaxSales
    /\ Throws(fail)
    /\ UNCHANGED <<nextCustomerId, debited, poultryVars, orderVars, settings, otherVars>>
    /\ IF InvalidSale(customerId, quantity, unitPrice)
       THEN /\ fail = "none"
            /\ resp' = Response("RecordSale", 400, "none")
            /\ UNCHANGED <<customers, sales, nextSaleId, credited>>
       ELSE IF refused
       THEN /\ fail = "none"
            /\ resp' = Response("RecordSale", 500, "SQLITE_CONSTRAINT")
            /\ UNCHANGED <<customers, sales, nextSaleId, credited>>
       ELSE IF fail = "insert"
       THEN /\ resp' = Response("RecordSale", 500, "SQLITE_IOERR")
            /\ UNCHANGED <<customers, sales, nextSaleId, credited>>
       ELSE /\ sales' = Insert(sales, id, row)
            /\ nextSaleId' = id + 1
            /\ IF fail = "update"
               THEN /\ resp' = Response("RecordSale", 500, "SQLITE_IOERR")
                    /\ UNCHANGED <<customers, credited>>
               ELSE /\ customers' = AddPurchases(customers, customerId, row.total_amount)
                    /\ credited' = credited \cup {id}
                    /\ resp' = IF fail = "select"
                               THEN Response("RecordSale", 500, "SQLITE_IOERR")
                               ELSE Response("RecordSale", 201, "none")

\* PUT /sales/:id
UpdateSale(id, paymentStatus) ==
    /\ UNCHANGED <<customers, nextCustomerId, nextSaleId, credited, debited,
                   poultryVars, orderVars, settings, faults, otherVars>>
    /\ IF id \in DOMAIN sales /\ paymentStatus \notin PaymentStatuses
       THEN /\ resp' = Response("UpdateSale", 500, "SQLITE_CONSTRAINT")
            /\ UNCHANGED sales
       ELSE /\ sales' = [i \in DOMAIN sales |->
                           IF i = id THEN [sales[i] EXCEPT !.payment_status = paymentStatus]
                           ELSE sales[i]]
            /\ resp' = Response("UpdateSale", 200, "none")

\* A delete that answers 404 for an id without a row
DeleteSaleNotFound(id, fail) ==
    /\ Throws(fail)
    /\ fail = "update" => id \in DOMAIN sales
    /\ UNCHANGED <<nextCustomerId, nextSaleId, credited, poultryVars, orderVars, settings, otherVars>>
    /\ IF fail = "select"
       THEN /\ resp' = Response("DeleteSale", 500, "SQLITE_IOERR")
            /\ UNCHANGED <<customers, sales, debited>>
       ELSE IF id \notin DOMAIN sales
       THEN /\ fail = "none"
            /\ resp' = Response("DeleteSale", 404, "none")
            /\ UNCHANGED <<customers, sales, debited>>
       ELSE IF fail = "update"
       THEN /\ resp' = Response("DeleteSale", 500, "SQLITE_IOERR")
            /\ UNCHANGED <<customers, sales, debited>>
       ELSE /\ customers' = AddPurchases(customers, sales[id].customer_id,
                                         0 - sales[id].total_amount)
            /\ debited' = debited \cup {id}
            /\ IF fail = "delete"
               THEN /\ resp' = Response("DeleteSale", 500, "SQLITE_IOERR")
                    /\ UNCHANGED sales
               ELSE /\ sales' = Delete(sales, id)
                    /\ resp' = Response("DeleteSale", 200, "none")

\* DELETE /sales/:id
DeleteSale(id, fail) ==
    /\ Throws(fail)
    /\ fail = "update" => id \in DOMAIN sales
    /\ UNCHANGED <<nextCustomerId, nextSaleId, credited, poultryVars, orderVars, settings, otherVars>>
    /\ IF fail = "select"
       THEN /\ resp' = Response("DeleteSale", 500, "SQLITE_IOERR")
            /\ UNCHANGED <<customers, sales, debited>>
       ELSE LET found == id \in DOMAIN sales
                after == IF found
                         THEN AddPurchases(customers, sales[id].customer_id,
                                           0 - sales[id].total_amount)
                         ELSE customers
            IN  IF found /\ fail = "update"
                THEN /\ resp' = Response("DeleteSale", 500, "SQLITE_IOERR")
                     /\ UNCHANGED <<customers, sales, debited>>
                ELSE /\ customers' = after
                     /\ debited' = IF found THEN debited \cup {id} ELSE debited
                     /\ IF fail = "delete"
                        THEN /\ resp' = Response("DeleteSale", 500, "SQLITE_IOERR")
                             /\ UNCHANGED sales
                        ELSE /\ sales' = Delete(sales, id)
                             /\ resp' = Response("DeleteSale", 200, "none")

(***************************************************************************)
(* Requests to /sales in flight together (routes/sales.ts).                *)
(*                                                                         *)
(* The handlers of POST /sales and DELETE /sales/:id, statement by         *)
(* statement, for two clients whose requests the server has accepted.      *)
(* Node runs JavaScript on one thread: a handler gives way to another only *)
(* where it awaits, and the statements of better-sqlite3 return their      *)
(* result without awaiting.  No storage fault is injected here.            *)
(***************************************************************************)
Requests == {"a", "b"}

\* A request slot with no request in it
Idle ==
    [op |-> "none", pc |-> "idle", customerId |-> 0, quantity |-> 0, unitPrice |-> 0,
     id |-> 0, sale |-> <<>>, overlapped |-> FALSE]

\* Request r is accepted and not yet answered.
Pending(r) == handlers[r].pc \notin {"idle", "done"}

\* The handler of request r has run its first statement and has not answered.
Running(r) == handlers[r].pc \notin {"idle", "received", "done"}

\* A handler that awaited between its SELECT and its UPDATE
YieldsAfterLookup(op, pc) == op = "DeleteSale" /\ pc = "selected"

\* Does the handler of `op` hand control back to the event loop when it stands
\* at `pc`?  Both handlers are plain (req, res) => { ... } functions without an
\* await.
Yields(op, pc) == FALSE

\* The handler of request r may run its next statement: every other handler has
\* not started, has answered, or stands at a point where it yields.
MayRun(r) ==
    \A o \in Requests \ {r} : Running(o) => Yields(handlers[o].op, handlers[o].pc)

\* The server accepts request `request` into slot r; `overlapped` records, for
\* it and for every request pending at that moment, that they were in flight
\* together.
Accept(r, request) ==
    [o \in Requests |->
        IF o = r THEN [request EXCEPT !.overlapped = \E p \in Requests \ {r} : Pending(p)]
        ELSE IF Pending(o) THEN [handlers[o] EXCEPT !.overlapped = TRUE]
        ELSE handlers[o]]

At(r, pc) == [handlers EXCEPT ![r].pc = pc]

\* router.post('/', ...): a POST /sales arrives
ReceiveRecordSale(r, customerId, quantity, unitPrice) ==
    /\ ~Pending(r)
    /\ nextSaleId + Cardinality({o \in Requests : handlers[o].op = "RecordSale"
                                                  /\ handlers[o].pc = "received"}) <= MaxSales
    /\ handlers' = Accept(r, [Idle EXCEPT !.op = "RecordSale", !.pc = "received",
                                          !.customerId = customerId,
                                          !.quantity = quantity, !.unitPrice = unitPrice])
    /\ UNCHANGED <<salesVars, poultryVars, orderVars, settings, userVars, feedVars, resp, faults>>

\* router.delete('/:id', ...): a DELETE /sales/:id arrives
ReceiveDeleteSale(r, id) ==
    /\ ~Pending(r)
    /\ handlers' = Accept(r, [Idle EXCEPT !.op = "DeleteSale", !.pc = "received", !.id = id])
    /\ UNCHANGED <<salesVars, poultryVars, orderVars, settings, userVars, feedVars, resp, faults>>

\* POST /sales: the validation and the INSERT INTO sales
RecordSaleInsert(r) ==
    LET h == handlers[r]
        row == SaleRow(h.customerId, h.quantity, h.unitPrice, 0, "")
    IN
    /\ h.op = "RecordSale" /\ h.pc = "received"
    /\ MayRun(r)
    /\ UNCHANGED <<customers, nextCustomerId, credited, debited, poultryVars, orderVars,
                   settings, userVars, feedVars, faults>>
    /\ IF InvalidSale(h.customerId, h.quantity, h.unitPrice)
       THEN /\ resp' = Response("RecordSale", 400, "none")
            /\ handlers' = At(r, "done")
            /\ UNCHANGED <<sales, nextSaleId>>
       ELSE IF h.customerId \notin DOMAIN customers
       THEN /\ resp' = Response("RecordSale", 500, "SQLITE_CONSTRAINT")
            /\ handlers' = At(r, "done")
            /\ UNCHANGED <<sales, nextSaleId>>
       ELSE /\ sales' = Insert(sales, nextSaleId, row)
            /\ nextSaleId' = nextSaleId + 1
            /\ handlers' = [handlers EXCEPT ![r].pc = "inserted", ![r].id = nextSaleId]
            /\ UNCHANGED resp

\* POST /sales: the UPDATE customers
RecordSaleCredit(r) ==
    LET h == handlers[r] IN
    /\ h.op = "RecordSale" /\ h.pc = "inserted"
    /\ MayRun(r)
    /\ customers' = AddPurchases(customers, h.customerId, SaleTotal(h.quantity, h.unitPrice, 0))
    /\ credited' = credited \cup {h.id}
    /\ handlers' = At(r, "credited")
    /\ UNCHANGED <<nextCustomerId, sales, nextSaleId, debited, poultryVars, orderVars,
                   settings, userVars, feedVars, resp, faults>>

\* POST /sales: the SELECT of the new row and res.status(201).json(sale)
RecordSaleRespond(r) ==
    /\ handlers[r].op = "RecordSale" /\ handlers[r].pc = "credited"
    /\ MayRun(r)
    /\ resp' = Response("RecordSale", 201, "none")
    /\ handlers' = At(r, "done")
    /\ UNCHANGED <<salesVars, poultryVars, orderVars, settings, userVars, feedVars, faults>>

\* DELETE /sales/:id: const sale = SELECT customer_id, total_amount ...
DeleteSaleLookup(r) ==
    LET h == handlers[r] IN
    /\ h.op = "DeleteSale" /\ h.pc = "received"
    /\ MayRun(r)
    /\ handlers' = [handlers EXCEPT ![r].pc = "selected",
                                    ![r].sale = IF h.id \in DOMAIN sales
                                                THEN <<sales[h.id]>> ELSE <<>>]
    /\ UNCHANGED <<salesVars, poultryVars, orderVars, settings, userVars, feedVars, resp, faults>>

\* DELETE /sales/:id: if (sale) { UPDATE customers ... }
DeleteSaleDebit(r) ==
    LET h == handlers[r] IN
    /\ h.op = "DeleteSale" /\ h.pc = "selected"
    /\ MayRun(r)
    /\ IF h.sale # <<>>
       THEN /\ customers' = AddPurchases(customers, h.sale[1].customer_id,
                                         0 - h.sale[1].total_amount)
            /\ debited' = debited \cup {h.id}
       ELSE UNCHANGED <<customers, debited>>
    /\ handlers' = At(r, "debited")
    /\ UNCHANGED <<nextCustomerId, sales, nextSaleId, credited, poultryVars, orderVars,
                   settings, userVars, feedVars, resp, faults>>

\* DELETE /sales/:id: DELETE FROM sales and res.json(...)
DeleteSaleRemove(r) ==
    /\ handlers[r].op = "DeleteSale" /\ handlers[r].pc = "debited"
    /\ MayRun(r)
    /\ sales' = Delete(sales, handlers[r].id)
    /\ resp' = Response("DeleteSale", 200, "none")
    /\ handlers' = At(r, "done")
    /\ UNCHANGED <<customers, nextCustomerId, nextSaleId, credited, debited, poultryVars,
                   orderVars, settings, userVars, feedVars, faults>>

(***************************************************************************)
(* Poultry batches and health records (routes/poultry.ts)                  *)
(***************************************************************************)
MaxBatches == 1
MaxHealth == 2

InitialCounts == {0, 2}
\* currentCount of PUT /batches/:id: <<>> when the body has none (bound as NULL)
CurrentCountInputs == {<<>>, <<0>>, <<1>>}
BatchStatuses == {"active", "sold", "archived"}
BatchStatusInputs == {"sold", "bogus"}
MortalityCounts == {-1, 0, 1, 2}

\* POST /poultry/batches
CreateBatch(initialCount) ==
    /\ nextBatchId <= MaxBatches
    /\ UNCHANGED <<salesVars, health, nextHealthId, subtracted, adjusted, orderVars, settings, faults, otherVars>>
    /\ IF FalsyNumber(initialCount)
       THEN /\ resp' = Response("CreateBatch", 400, "none")
            /\ UNCHANGED <<batches, nextBatchId>>
       ELSE /\ batches' = Insert(batches, nextBatchId,
                                 [initial_count |-> initialCount,
                                  current_count |-> initialCount,
                                  status |-> "active"])
            /\ nextBatchId' = nextBatchId + 1
            /\ resp' = Response("CreateBatch", 201, "none")

\* PUT /poultry/batches/:id, had its UPDATE also listed initial_count
UpdateBatchRestocking(id, currentCount, status) ==
    /\ UNCHANGED <<salesVars, nextBatchId, health, nextHealthId, subtracted, orderVars, settings, faults, otherVars>>
    /\ IF id \in DOMAIN batches /\ (currentCount = <<>> \/ status \notin BatchStatuses)
       THEN /\ resp' = Response("UpdateBatch", 500, "SQLITE_CONSTRAINT")
            /\ UNCHANGED <<batches, adjusted>>
       ELSE /\ batches' = [b \in DOMAIN batches |->
                             IF b = id
                             THEN [batches[b] EXCEPT !.initial_count = currentCount[1],
                                                     !.current_count = currentCount[1],
                                                     !.status = status]
                             ELSE batches[b]]
            /\ adjusted' = IF id \in DOMAIN batches THEN adjusted \cup {id} ELSE adjusted
            /\ resp' = Response("UpdateBatch", 200, "none")

\* PUT /poultry/batches/:id
UpdateBatch(id, currentCount, status) ==
    /\ UNCHANGED <<salesVars, nextBatchId, health, nextHealthId, subtracted, orderVars, settings, faults, otherVars>>
    /\ IF id \in DOMAIN batches /\ (currentCount = <<>> \/ status \notin BatchStatuses)
       THEN /\ resp' = Response("UpdateBatch", 500, "SQLITE_CONSTRAINT")
            /\ UNCHANGED <<batches, adjusted>>
       ELSE /\ batches' = [b \in DOMAIN batches |->
                             IF b = id
                             THEN [batches[b] EXCEPT !.current_count = currentCount[1],
                                                     !.status = status]
                             ELSE batches[b]]
            /\ adjusted' = IF id \in DOMAIN batches THEN adjusted \cup {id} ELSE adjusted
            /\ resp' = Response("UpdateBatch", 200, "none")

\* The same UPDATE, had it subtracted one bird more than the record reports
SubtractMortalityAndOne(b, id, mortalityCount) ==
    [i \in DOMAIN b |->
        IF i = id THEN [b[i] EXCEPT !.current_count = @ - (mortalityCount + 1)] ELSE b[i]]

\* UPDATE poultry_batches SET current_count = current_count - ? WHERE id = ?
SubtractMortality(b, id, mortalityCount) ==
    [i \in DOMAIN b |->
        IF i = id THEN [b[i] EXCEPT !.current_count = @ - mortalityCount] ELSE b[i]]

\* POST /poultry/health
RecordHealthEvent(batchId, mortalityCount, fail) ==
    LET id == nextHealthId
        \* mortalityCount || 0
        row == [batch_id |-> batchId, mortality_count |-> mortalityCount]
    IN
    /\ nextHealthId <= MaxHealth
    /\ Throws(fail)
    /\ UNCHANGED <<salesVars, nextBatchId, adjusted, orderVars, settings, otherVars>>
    /\ IF FalsyNumber(batchId)
       THEN /\ fail = "none"
            /\ resp' = Response("RecordHealthEvent", 400, "none")
            /\ UNCHANGED <<batches, health, nextHealthId, subtracted>>
       ELSE IF batchId \notin DOMAIN batches
       THEN /\ fail = "none"
            /\ resp' = Response("RecordHealthEvent", 500, "SQLITE_CONSTRAINT_FOREIGNKEY")
            /\ UNCHANGED <<batches, health, nextHealthId, subtracted>>
       ELSE IF fail = "insert"
       THEN /\ resp' = Response("RecordHealthEvent", 500, "SQLITE_IOERR")
            /\ UNCHANGED <<batches, health, nextHealthId, subtracted>>
       ELSE /\ health' = Insert(health, id, row)
            /\ nextHealthId' = id + 1
            /\ fail = "update" => mortalityCount > 0
            /\ IF fail = "update"
               THEN /\ resp' = Response("RecordHealthEvent", 500, "SQLITE_IOERR")
                    /\ UNCHANGED <<batches, subtracted>>
               ELSE /\ IF mortalityCount > 0
                       THEN /\ batches' = SubtractMortality(batches, batchId, mortalityCount)
                            /\ subtracted' = subtracted \cup {id}
                       ELSE UNCHANGED <<batches, subtracted>>
                    /\ resp' = IF fail = "select"
                               THEN Response("RecordHealthEvent", 500, "SQLITE_IOERR")
                               ELSE Response("RecordHealthEvent", 201, "none")


(***************************************************************************)
(* Orders (routes/orders.ts)                                               *)
(***************************************************************************)
MaxOrders == 2

Timestamps == {1, 2}
RandomSuffixes == {"X9Q2", "K3J2"}
OrderStatuses == {"new", "confirmed", "processing", "delivered", "cancelled"}

\* Request items.  unitPrice is <<>> when the item carries none (undefined).
EggsTray == [product |-> "eggs_tray", quantity |-> 2, unitPrice |-> <<3>>]
ManureBag == [product |-> "manure_bag", quantity |-> 1, unitPrice |-> <<>>]
ZeroQuantity == [product |-> "eggs_tray", quantity |-> 0, unitPrice |-> <<3>>]
NoProduct == [product |-> "", quantity |-> 1, unitPrice |-> <<3>>]
NegativeQuantity == [product |-> "eggs_tray", quantity |-> -1, unitPrice |-> <<3>>]
\* <<>> stands for an items field that is missing, not an array, or empty.
ItemLists ==
    {<<>>, <<EggsTray>>, <<ManureBag>>, <<EggsTray, ManureBag>>,
     <<ZeroQuantity>>, <<EggsTray, NoProduct>>, <<NegativeQuantity>>}

\* req.body of POST /orders; `total` and `status` are fields the client sends
\* along, which the handler does not read.
OrderRequests ==
    {[customerName |-> "Amina", customerPhone |-> "0700", items |-> l, total |-> 7,
      status |-> "delivered"] : l \in ItemLists}
    \cup {[customerName |-> "", customerPhone |-> "0700", items |-> <<EggsTray>>, total |-> 7,
           status |-> "delivered"],
          [customerName |-> "Amina", customerPhone |-> "", items |-> <<EggsTray>>, total |-> 7,
           status |-> "delivered"]}

\* `${prefix}-${timestamp}-${random}`
generateOrderNumber(timestamp, random) == <<"CFM", timestamp, random>>

\* item.unitPrice || 0
PriceOrZero(item) == IF item.unitPrice = <<>> THEN 0 ELSE item.unitPrice[1]

RECURSIVE ReduceTotal(_)
\* items.reduce((sum, item) => sum + item.quantity * (item.unitPrice || 0), 0)
ReduceTotal(items) ==
    IF items = <<>> THEN 0
    ELSE ReduceTotal(SubSeq(items, 1, Len(items) - 1))
         + items[Len(items)].quantity * PriceOrZero(items[Len(items)])

OrderTotalFromClient(body) == body.total

\* const totalAmount = items.reduce(...)
OrderTotal(body) == ReduceTotal(body.items)

\* JSON.stringify(items), as GET /orders parses it back: a key whose value is
\* undefined is left out.
StringifyItems(items) ==
    [i \in 1..Len(items) |->
        IF items[i].unitPrice = <<>>
        THEN [product |-> items[i].product, quantity |-> items[i].quantity]
        ELSE [product |-> items[i].product, quantity |-> items[i].quantity,
              unitPrice |-> items[i].unitPrice[1]]]

InvalidItemZeroOnly(item) ==
    FalsyString(item.product) \/ FalsyNumber(item.quantity)

\* if (!item.product || !item.quantity || item.quantity < 1)
InvalidItem(item) ==
    FalsyString(item.product) \/ FalsyNumber(item.quantity) \/ item.quantity < 1

InvalidOrder(body) ==
    \/ FalsyString(body.customerName)
    \/ FalsyString(body.customerPhone)
    \/ Len(body.items) = 0
    \/ \E i \in 1..Len(body.items) : InvalidItem(body.items[i])

UniqueViolationIgnored(orderNumber) == FALSE

\* order_number TEXT UNIQUE NOT NULL
UniqueViolation(orderNumber) ==
    \E o \in DOMAIN orders : orders[o].order_number = orderNumber

OrderRowStatusFromClient(body, orderNumber) ==
    [order_number |-> orderNumber,
     order_items |-> StringifyItems(body.items),
     total_amount |-> OrderTotal(body),
     status |-> body.status]

\* INSERT INTO orders (...) VALUES (?, ?, ?, ?, ?, ?, ?, ?, 'new')
OrderRow(body, orderNumber) ==
    [order_number |-> orderNumber,
     order_items |-> StringifyItems(body.items),
     total_amount |-> OrderTotal(body),
     status |-> "new"]

\* POST /orders, up to `await sendOrderEmail(order, companyEmail)`
PlaceOrder(body, timestamp, random, fail) ==
    LET id == nextOrderId
        orderNumber == generateOrderNumber(timestamp, random)
        row == OrderRow(body, orderNumber)
    IN
    /\ nextOrderId <= MaxOrders
    /\ Throws(fail)
    /\ UNCHANGED <<salesVars, poultryVars, statusBefore, settings, otherVars>>
    /\ IF InvalidOrder(body)
       THEN /\ fail = "none"
            /\ resp' = Response("PlaceOrder", 400, "none")
            /\ UNCHANGED <<orders, nextOrderId, now, awaitingEmail>>
       ELSE /\ timestamp >= now
            /\ now' = timestamp
            /\ IF UniqueViolation(orderNumber)
               THEN /\ fail = "none"
                    /\ resp' = Response("PlaceOrder", 500, "SQLITE_CONSTRAINT_UNIQUE")
                    /\ UNCHANGED <<orders, nextOrderId, awaitingEmail>>
               ELSE IF fail = "insert"
               THEN /\ resp' = Response("PlaceOrder", 500, "SQLITE_IOERR")
                    /\ UNCHANGED <<orders, nextOrderId, awaitingEmail>>
               ELSE /\ orders' = Insert(orders, id, row)
                    /\ nextOrderId' = id + 1
                    /\ IF fail = "select"
                       THEN /\ resp' = Response("PlaceOrder", 500, "SQLITE_IOERR")
                            /\ UNCHANGED awaitingEmail
                       ELSE IF fail = "settings"
                       THEN /\ resp' = Response("PlaceOrder", 201, "email")
                            /\ UNCHANGED awaitingEmail
                       ELSE /\ awaitingEmail' = awaitingEmail \cup {id}
                            /\ UNCHANGED resp

\* A handler that takes a failed notification for a failed order: it deletes
\* the row and answers 500
EmailSettledUndoing(id, rejected) ==
    /\ id \in awaitingEmail
    /\ awaitingEmail' = awaitingEmail \ {id}
    /\ IF rejected
       THEN /\ orders' = Delete(orders, id)
            /\ resp' = Response("PlaceOrder", 500, "email")
       ELSE /\ resp' = Response("PlaceOrder", 201, "none")
            /\ UNCHANGED orders
    /\ UNCHANGED <<salesVars, poultryVars, nextOrderId, now, statusBefore, settings, faults, otherVars>>

\* POST /orders, from the settling of sendOrderEmail's promise to the response
EmailSettled(id, rejected) ==
    /\ id \in awaitingEmail
    /\ awaitingEmail' = awaitingEmail \ {id}
    /\ resp' = Response("PlaceOrder", 201, IF rejected THEN "email" ELSE "none")
    /\ UNCHANGED <<salesVars, poultryVars, orders, nextOrderId, now, statusBefore, settings,
                   faults, otherVars>>

\* The UPDATE without its WHERE id = ?: every row takes the status
UpdateStatusEveryRow(id, status) ==
    /\ UNCHANGED <<salesVars, poultryVars, nextOrderId, now, awaitingEmail, settings, faults, otherVars>>
    /\ IF FalsyString(status) \/ status \notin OrderStatuses
       THEN /\ resp' = Response("UpdateStatus", 400, "none")
            /\ UNCHANGED <<orders, statusBefore>>
       ELSE /\ orders' = [o \in DOMAIN orders |-> [orders[o] EXCEPT !.status = status]]
            /\ statusBefore' = IF id \in DOMAIN orders THEN orders[id].status ELSE statusBefore
            /\ resp' = IF id \in DOMAIN orders
                       THEN Response("UpdateStatus", 200, "none")
                       ELSE Response("UpdateStatus", 404, "none")

\* A validation that lets a missing status through as the column default
UpdateStatusDefaulting(id, status) ==
    LET given == IF FalsyString(status) THEN "new" ELSE status
    IN
    /\ UNCHANGED <<salesVars, poultryVars, nextOrderId, now, awaitingEmail, settings, faults, otherVars>>
    /\ IF given \notin OrderStatuses
       THEN /\ resp' = Response("UpdateStatus", 400, "none")
            /\ UNCHANGED <<orders, statusBefore>>
       ELSE /\ orders' = [o \in DOMAIN orders |->
                            IF o = id THEN [orders[o] EXCEPT !.status = given]
                            ELSE orders[o]]
            /\ statusBefore' = IF id \in DOMAIN orders THEN orders[id].status ELSE statusBefore
            /\ resp' = IF id \in DOMAIN orders
                       THEN Response("UpdateStatus", 200, "none")
                       ELSE Response("UpdateStatus", 404, "none")

\* A handler that enforces new -> confirmed -> processing -> delivered, with
\* cancelled from a status that is not terminal, and refuses any other move
UpdateStatusForwardOnly(id, status) ==
    LET allowed(s, t) ==
            \/ <<s, t>> \in {<<"new", "confirmed">>, <<"confirmed", "processing">>,
                             <<"processing", "delivered">>}
            \/ t = "cancelled" /\ s \notin {"delivered", "cancelled"}
    IN
    /\ UNCHANGED <<salesVars, poultryVars, nextOrderId, now, awaitingEmail, settings, faults, otherVars>>
    /\ IF FalsyString(status) \/ status \notin OrderStatuses
       THEN /\ resp' = Response("UpdateStatus", 400, "none")
            /\ UNCHANGED <<orders, statusBefore>>
       ELSE IF id \notin DOMAIN orders
       THEN /\ resp' = Response("UpdateStatus", 404, "none")
            /\ UNCHANGED <<orders, statusBefore>>
       ELSE IF ~allowed(orders[id].status, status)
       THEN /\ resp' = Response("UpdateStatus", 400, "none")
            /\ UNCHANGED <<orders, statusBefore>>
       ELSE /\ orders' = [orders EXCEPT ![id].status = status]
            /\ statusBefore' = orders[id].status
            /\ resp' = Response("UpdateStatus", 200, "none")

\* A handler without the validStatuses check
UpdateStatusUnvalidated(id, status) ==
    /\ UNCHANGED <<salesVars, poultryVars, nextOrderId, now, awaitingEmail, settings, faults, otherVars>>
    /\ orders' = [o \in DOMAIN orders |->
                    IF o = id THEN [orders[o] EXCEPT !.status = status]
                    ELSE orders[o]]
    /\ statusBefore' = IF id \in DOMAIN orders THEN orders[id].status ELSE statusBefore
    /\ resp' = IF id \in DOMAIN orders
               THEN Response("UpdateStatus", 200, "none")
               ELSE Response("UpdateStatus", 404, "none")

\* PUT /orders/:id/status
UpdateStatus(id, status) ==
    /\ UNCHANGED <<salesVars, poultryVars, nextOrderId, now, awaitingEmail, settings, faults, otherVars>>
    /\ IF FalsyString(status) \/ status \notin OrderStatuses
       THEN /\ resp' = Response("UpdateStatus", 400, "none")
            /\ UNCHANGED <<orders, statusBefore>>
       ELSE /\ orders' = [o \in DOMAIN orders |->
                            IF o = id THEN [orders[o] EXCEPT !.status = status]
                            ELSE orders[o]]
            /\ statusBefore' = IF id \in DOMAIN orders THEN orders[id].status ELSE statusBefore
            /\ resp' = IF id \in DOMAIN orders
                       THEN Response("UpdateStatus", 200, "none")
                       ELSE Response("UpdateStatus", 404, "none")

\* A delete that keeps the orders already delivered
DeleteOrderUnlessDelivered(id) ==
    /\ UNCHANGED <<salesVars, poultryVars, nextOrderId, now, awaitingEmail, statusBefore,
                   settings, faults, otherVars>>
    /\ IF id \notin DOMAIN orders
       THEN /\ resp' = Response("DeleteOrder", 404, "none")
            /\ UNCHANGED orders
       ELSE IF orders[id].status = "delivered"
       THEN /\ resp' = Response("DeleteOrder", 400, "none")
            /\ UNCHANGED orders
       ELSE /\ orders' = Delete(orders, id)
            /\ resp' = Response("DeleteOrder", 200, "none")

\* DELETE /orders/:id
DeleteOrder(id) ==
    /\ UNCHANGED <<salesVars, poultryVars, nextOrderId, now, awaitingEmail, statusBefore,
                   settings, faults, otherVars>>
    /\ IF id \notin DOMAIN orders
       THEN /\ resp' = Response("DeleteOrder", 404, "none")
            /\ UNCHANGED orders
       ELSE /\ orders' = Delete(orders, id)
            /\ resp' = Response("DeleteOrder", 200, "none")

(***************************************************************************)
(* Accounts (POST /register of the auth router)                            *)
(*                                                                         *)
(* The handler is async and awaits bcrypt.hash between its SELECT of the   *)
(* email and its INSERT: it is two actions, and other handlers run between *)
(* them.                                                                   *)
(***************************************************************************)
MaxRegistrations == 2

Emails == {"amina@farm.ug", "joseph@farm.ug"}
FullNames == {"Amina", "Joseph"}
\* The bodies that pass `!email || !password || !fullName`; all carry a password
Registrations == [email : Emails, fullName : FullNames]
\* and two that do not
IncompleteRegistrations ==
    {[email |-> "", fullName |-> "Amina"], [email |-> "amina@farm.ug", fullName |-> ""]}

\* SELECT id FROM users WHERE email = ?
existingUser(email) == \E u \in DOMAIN users : users[u].email = email

Suspended == SumOver(hashing, Registrations)

\* POST /register up to `await bcrypt.hash(password, 10)`
Register(body) ==
    /\ UNCHANGED <<salesVars, poultryVars, orderVars, settings, handlers, users, nextUserId,
                   feedVars, faults>>
    /\ IF FalsyString(body.email) \/ FalsyString(body.fullName)
       THEN /\ resp' = Response("Register", 400, "none")
            /\ UNCHANGED hashing
       ELSE IF existingUser(body.email)
       THEN /\ resp' = Response("Register", 400, "none")
            /\ UNCHANGED hashing
       ELSE /\ Suspended < MaxRegistrations
            /\ hashing' = [hashing EXCEPT ![body] = @ + 1]
            /\ UNCHANGED resp

\* POST /register from the moment bcrypt.hash settles: the INSERT, which
\* users.email UNIQUE refuses when a row holds the email by now (the catch
\* answers 500 'Failed to register user'), the token and the response.
HashSettled(body) ==
    /\ hashing[body] > 0
    /\ hashing' = [hashing EXCEPT ![body] = @ - 1]
    /\ UNCHANGED <<salesVars, poultryVars, orderVars, settings, handlers, feedVars, faults>>
    /\ IF existingUser(body.email)
       THEN /\ resp' = Response("Register", 500, "SQLITE_CONSTRAINT_UNIQUE")
            /\ UNCHANGED <<users, nextUserId>>
       ELSE /\ users' = Insert(users, nextUserId, [email |-> body.email, full_name |-> body.fullName])
            /\ nextUserId' = nextUserId + 1
            /\ resp' = Response("Register", 200, "none")

(***************************************************************************)
(* Recent activity (GET /activities of the dashboard router)               *)
(*                                                                         *)
(* A table is the sequence of its rows' dates in the order the rows were   *)
(* created (one created_at per row): row i has id i and date table[i].     *)
(***************************************************************************)
MaxRows == 2
DefaultLimit == 20

Dates == {1, 2}
Tables == UNION {[1..n -> Dates] : n \in 0..MaxRows}
\* req.query.limit as parseInt reads it: <<>> for NaN (no limit given); none is
\* negative here
LimitQueries == {<<>>, <<0>>, <<1>>, <<2>>}

\* const limit = parseInt(req.query.limit as string) || 20
Limit(query) == IF query = <<>> \/ query[1] = 0 THEN DefaultLimit ELSE query[1]

\* SELECT '<type>' as type, id, date as timestamp ... ORDER BY created_at DESC LIMIT ?
Recent(type, table, limit) ==
    LET n == IF limit < Len(table) THEN limit ELSE Len(table)
    IN  [i \in 1..n |-> [type |-> type, id |-> Len(table) + 1 - i,
                         timestamp |-> table[Len(table) + 1 - i]]]

\* new Date(row.date).getTime(): <<>> stands for NaN, the time of the Invalid
\* Date that new Date(undefined) is.  The rows selected above carry their date
\* as `timestamp`.
getTime(row) == IF "date" \in DOMAIN row THEN <<row.date>> ELSE <<>>

\* (a, b) => new Date(b.date).getTime() - new Date(a.date).getTime(), as
\* Array.prototype.sort reads it: a NaN result counts as +0.
Comparator(a, b) ==
    IF getTime(a) = <<>> \/ getTime(b) = <<>> THEN 0 ELSE getTime(b)[1] - getTime(a)[1]

\* One step of a stable sort: x goes behind the rows that do not sort after it.
InsertSorted(sorted, x) ==
    LET k == Cardinality({i \in 1..Len(sorted) : Comparator(sorted[i], x) <= 0})
    IN  SubSeq(sorted, 1, k) \o <<x>> \o SubSeq(sorted, k + 1, Len(sorted))

RECURSIVE Sort(_)
\* activities.sort(comparator); the sort is stable
Sort(rows) ==
    IF rows = <<>> THEN <<>>
    ELSE InsertSorted(Sort(SubSeq(rows, 1, Len(rows) - 1)), rows[Len(rows)])

\* activities.slice(0, limit)
Slice(rows, limit) == SubSeq(rows, 1, IF limit < Len(rows) THEN limit ELSE Len(rows))

\* The body GET /activities answers
Activities(tables, limit) ==
    Slice(Sort(Recent("egg", tables.egg, limit)
               \o Recent("sale", tables.sale, limit)
               \o Recent("health", tables.health, limit)), limit)

\* GET /activities
GetActivities(query) ==
    /\ feed' = [query |-> query, body |-> Activities(activityRows, Limit(query))]
    /\ resp' = Response("GetActivities", 200, "none")
    /\ UNCHANGED <<salesVars, poultryVars, orderVars, settings, handlers, userVars,
                   activityRows, faults>>

(***************************************************************************)
(* Site settings (routes/settings.ts) and the order form that reads them   *)
(***************************************************************************)
\* Prices are counted in units of 5000 UGX: the seeded '15000' is "3".
EggsTrayKey == "order_price_eggs_tray"
\* a key no default seeds
CustomKey == "order_price_goat"
DefaultSettings == [k \in {EggsTrayKey} |-> "3"]
SettingValues == {"3", "5"}

\* parseInt(text): <<>> is NaN
ParseInt(text) ==
    CASE text = "3" -> <<3>>
      [] text = "5" -> <<5>>
      [] OTHER -> <<>>

\* A single-key update that also re-prices the stored orders at the new value
UpdateSettingRepricing(key, value, fail) ==
    LET price == ParseInt(value[1])[1]
        Repriced(row) ==
            [row EXCEPT !.order_items = [i \in DOMAIN @ |-> [@[i] EXCEPT !.unitPrice = price]],
                        !.total_amount = ReduceTotal([i \in DOMAIN row.order_items |->
                                             [quantity |-> row.order_items[i].quantity,
                                              unitPrice |-> <<price>>]])]
    IN
    /\ Throws(fail)
    /\ UNCHANGED <<salesVars, poultryVars, nextOrderId, now, awaitingEmail, statusBefore, otherVars>>
    /\ IF value = <<>>
       THEN /\ fail = "none"
            /\ resp' = Response("UpdateSetting", 400, "none")
            /\ UNCHANGED <<settings, orders>>
       ELSE IF fail = "update"
       THEN /\ resp' = Response("UpdateSetting", 500, "SQLITE_IOERR")
            /\ UNCHANGED <<settings, orders>>
       ELSE /\ settings' = [k \in DOMAIN settings |->
                              IF k = key THEN value[1] ELSE settings[k]]
            /\ orders' = [o \in DOMAIN orders |-> Repriced(orders[o])]
            /\ resp' = IF key \in DOMAIN settings
                       THEN Response("UpdateSetting", 200, "none")
                       ELSE Response("UpdateSetting", 404, "none")

\* PUT /settings/:key; value is <<>> when the body carries none (undefined)
UpdateSetting(key, value, fail) ==
    /\ Throws(fail)
    /\ UNCHANGED <<salesVars, poultryVars, orderVars, otherVars>>
    /\ IF value = <<>>
       THEN /\ fail = "none"
            /\ resp' = Response("UpdateSetting", 400, "none")
            /\ UNCHANGED settings
       ELSE IF fail = "update"
       THEN /\ resp' = Response("UpdateSetting", 500, "SQLITE_IOERR")
            /\ UNCHANGED settings
       ELSE /\ settings' = [k \in DOMAIN settings |->
                              IF k = key THEN value[1] ELSE settings[k]]
            /\ resp' = IF key \in DOMAIN settings
                       THEN Response("UpdateSetting", 200, "none")
                       ELSE Response("UpdateSetting", 404, "none")

\* PUT /settings; body is <<>> when it is not an object, else <<key -> value>>.
\* The statements run inside db.transaction: a throw rolls all of them back.
UpdateSettings(body, fail) ==
    /\ Throws(fail)
    /\ UNCHANGED <<salesVars, poultryVars, orderVars, otherVars>>
    /\ IF body = <<>>
       THEN /\ fail = "none"
            /\ resp' = Response("UpdateSettings", 400, "none")
            /\ UNCHANGED settings
       ELSE IF fail = "update"
       THEN /\ resp' = Response("UpdateSettings", 500, "SQLITE_IOERR")
            /\ UNCHANGED settings
       ELSE /\ settings' = [k \in DOMAIN settings \cup DOMAIN body[1] |->
                              IF k \in DOMAIN body[1] THEN body[1][k] ELSE settings[k]]
            /\ resp' = Response("UpdateSettings", 200, "none")

\* const PRODUCTS = [...]
PRODUCTS ==
    {[value |-> "eggs_tray", label |-> "Fresh Eggs (Tray of 30)",
      settingsKey |-> EggsTrayKey, fallbackPrice |-> 3]}

\* getProductPrice of the order form, over the settings the page has loaded
getProductPrice(loaded, productValue) ==
    LET product == CHOOSE p \in PRODUCTS : p.value = productValue
        settingsPrice == ParseInt(IF product.settingsKey \in DOMAIN loaded
                                  THEN loaded[product.settingsKey] ELSE "")
    IN IF settingsPrice = <<>> THEN product.fallbackPrice ELSE settingsPrice[1]

\* The body the order form submits for `quantity` of one product
OrderForm(loaded, productValue, quantity) ==
    LET product == CHOOSE p \in PRODUCTS : p.value = productValue
    IN [customerName |-> "Amina", customerPhone |-> "0700",
        items |-> <<[product |-> product.label, quantity |-> quantity,
                     unitPrice |-> <<getProductPrice(loaded, productValue)>>]>>]

InitSales ==
    /\ customers = <<>>
    /\ nextCustomerId = 1
    /\ sales = <<>>
    /\ nextSaleId = 1
    /\ credited = {}
    /\ debited = {}

InitPoultry ==
    /\ batches = <<>>
    /\ nextBatchId = 1
    /\ health = <<>>
    /\ nextHealthId = 1
    /\ subtracted = {}
    /\ adjusted = {}

InitOrders ==
    /\ orders = <<>>
    /\ nextOrderId = 1
    /\ now = 1
    /\ awaitingEmail = {}
    /\ statusBefore = "none"

\* initializeDatabase seeds every default setting that is absent
InitSettings ==
    settings = DefaultSettings

\* No request in flight, no account, nothing on the feed's tables
InitHandlers == handlers = [r \in Requests |-> Idle]

InitUsers ==
    /\ users = <<>>
    /\ nextUserId = 1
    /\ hashing = [body \in Registrations |-> 0]

\* No request is in flight, no account exists, the three tables of the activity
\* feed are empty.
InitOther ==
    /\ InitHandlers
    /\ InitUsers
    /\ activityRows = [egg |-> <<>>, sale |-> <<>>, health |-> <<>>]
    /\ feed = [query |-> <<>>, body |-> <<>>]

Init ==
    /\ InitSales
    /\ InitPoultry
    /\ InitOrders
    /\ InitSettings
    /\ InitOther
    /\ resp = Response("none", 0, "none")
    /\ faults = 0

SaleFailures == {"none", "insert", "update", "select"}
DeleteFailures == {"none", "select", "update", "delete"}

NextSales ==
    \/ CreateCustomer
    \/ \E id \in DOMAIN customers : DeleteCustomer(id)
    \/ \E c \in {0} \cup CustomerIds, q \in Quantities, u \in UnitPrices, t \in ClientTotals,
          p \in PaymentInputs, f \in SaleFailures : RecordSale(c, q, u, t, p, f)
    \/ \E id \in 1..MaxSales, p \in PaymentUpdates : UpdateSale(id, p)
    \/ \E id \in 1..MaxSales, f \in DeleteFailures : DeleteSale(id, f)

SpecSales == Init /\ [][NextSales]_vars

\* The ledger while the storage does not fail: customers are created, edited
\* and deleted, sales recorded, edited and deleted.
NextLedger ==
    \/ CreateCustomer
    \/ \E id \in CustomerIds, n \in CustomerNameInputs : UpdateCustomer(id, n)
    \/ \E id \in DOMAIN customers : DeleteCustomer(id)
    \/ \E c \in {0} \cup CustomerIds, q \in Quantities, u \in UnitPrices :
          RecordSale(c, q, u, 0, "", "none")
    \/ \E id \in 1..MaxSales, p \in PaymentUpdates : UpdateSale(id, p)
    \/ \E id \in 1..MaxSales : DeleteSale(id, "none")

SpecLedger == Init /\ [][NextLedger]_vars

\* The two clients' requests meet a shop with one customer and no sale yet.
InitInFlight ==
    /\ customers = Insert(<<>>, 1, [name |-> "Amina", total_purchases |-> 0])
    /\ nextCustomerId = 2
    /\ sales = <<>>
    /\ nextSaleId = 1
    /\ credited = {}
    /\ debited = {}
    /\ InitPoultry
    /\ InitOrders
    /\ InitSettings
    /\ InitOther
    /\ resp = Response("CreateCustomer", 201, "none")
    /\ faults = 0

NextInFlight ==
    \/ \E r \in Requests, c \in CustomerIds, u \in UnitPrices : ReceiveRecordSale(r, c, 2, u)
    \/ \E r \in Requests, id \in 1..MaxSales : ReceiveDeleteSale(r, id)
    \/ \E r \in Requests : RecordSaleInsert(r)
    \/ \E r \in Requests : RecordSaleCredit(r)
    \/ \E r \in Requests : RecordSaleRespond(r)
    \/ \E r \in Requests : DeleteSaleLookup(r)
    \/ \E r \in Requests : DeleteSaleDebit(r)
    \/ \E r \in Requests : DeleteSaleRemove(r)

SpecInFlight == InitInFlight /\ [][NextInFlight]_vars

NextAccounts ==
    \/ \E body \in Registrations \cup IncompleteRegistrations : Register(body)
    \/ \E body \in Registrations : HashSettled(body)

SpecAccounts == Init /\ [][NextAccounts]_vars

\* The dashboard is opened on any three tables of at most MaxRows rows.
InitFeed ==
    /\ InitSales
    /\ InitPoultry
    /\ InitOrders
    /\ InitSettings
    /\ InitHandlers
    /\ InitUsers
    /\ activityRows \in [egg : Tables, sale : Tables, health : Tables]
    /\ feed = [query |-> <<>>, body |-> <<>>]
    /\ resp = Response("none", 0, "none")
    /\ faults = 0

NextFeed == \E query \in LimitQueries : GetActivities(query)

SpecFeed == InitFeed /\ [][NextFeed]_vars

NextPoultry ==
    \/ \E n \in InitialCounts : CreateBatch(n)
    \/ \E id \in 1..MaxBatches, n \in CurrentCountInputs, st \in BatchStatusInputs :
          UpdateBatch(id, n, st)
    \/ \E b \in 0..MaxBatches, m \in MortalityCounts, f \in SaleFailures :
          RecordHealthEvent(b, m, f)

SpecPoultry == Init /\ [][NextPoultry]_vars

OrderFailures == {"none", "insert", "select", "settings"}
\* PUT /orders/:id/status with a status it rejects; SpecLifecycle draws the valid ones
StatusInputs == {"", "shipped"}

\* A request the validation rejects reads neither the clock nor the random
\* suffix and runs no statement: one draw of them covers it.
NextOrders ==
    \/ \E body \in {b \in OrderRequests : ~InvalidOrder(b)}, t \in Timestamps,
          r \in RandomSuffixes, f \in OrderFailures : PlaceOrder(body, t, r, f)
    \/ \E body \in {b \in OrderRequests : InvalidOrder(b)} :
          PlaceOrder(body, now, "X9Q2", "none")
    \/ \E id \in awaitingEmail, rejected \in BOOLEAN : EmailSettled(id, rejected)
    \/ \E id \in 1..MaxOrders, st \in StatusInputs : UpdateStatus(id, st)
    \/ \E id \in 1..MaxOrders : DeleteOrder(id)

SpecOrders == Init /\ [][NextOrders]_vars

\* The price list and the order form: orders are placed at the price the
\* settings hold when the form is filled, and the settings are edited.
SettingKeys == {EggsTrayKey, CustomKey}
SettingValueInputs == {<<>>} \cup {<<v>> : v \in SettingValues}
SettingsBodies ==
    {<<>>, <<[k \in {EggsTrayKey} |-> "5"]>>, <<[k \in {EggsTrayKey, CustomKey} |-> "3"]>>}
SettingFailures == {"none", "update"}

NextSettings ==
    \/ \E t \in Timestamps, r \in RandomSuffixes :
          PlaceOrder(OrderForm(settings, "eggs_tray", 2), t, r, "none")
    \/ \E id \in awaitingEmail : EmailSettled(id, FALSE)
    \/ \E k \in SettingKeys, v \in SettingValueInputs, f \in SettingFailures :
          UpdateSetting(k, v, f)
    \/ \E b \in SettingsBodies, f \in SettingFailures : UpdateSettings(b, f)

SpecSettings == Init /\ [][NextSettings]_vars

\* The order desk of a farm already trading: one customer with one sale of
\* 2 at unit price 3 and one batch of 2 birds are on the books (the state
\* after POST /customers, POST /sales and POST /poultry/batches), and orders
\* are placed, moved between statuses and deleted.
InitStocked ==
    /\ customers = Insert(<<>>, 1, [name |-> "Amina", total_purchases |-> SaleTotal(2, 3, 0)])
    /\ nextCustomerId = 2
    /\ sales = Insert(<<>>, 1, SaleRow(1, 2, 3, 0, ""))
    /\ nextSaleId = 2
    /\ credited = {1}
    /\ debited = {}
    /\ batches = Insert(<<>>, 1, [initial_count |-> 2, current_count |-> 2, status |-> "active"])
    /\ nextBatchId = 2
    /\ health = <<>>
    /\ nextHealthId = 1
    /\ subtracted = {}
    /\ adjusted = {}
    /\ InitOrders
    /\ InitSettings
    /\ InitOther
    /\ resp = Response("CreateBatch", 201, "none")
    /\ faults = 0

DeskRequest ==
    [customerName |-> "Amina", customerPhone |-> "0700", items |-> <<EggsTray, ManureBag>>,
     total |-> 7, status |-> "delivered"]
LifecycleInputs == OrderStatuses \cup {"", "shipped"}

NextLifecycle ==
    \/ \E t \in Timestamps : PlaceOrder(DeskRequest, t, "X9Q2", "none")
    \/ \E id \in awaitingEmail : EmailSettled(id, FALSE)
    \/ \E id \in 1..MaxOrders, st \in LifecycleInputs : UpdateStatus(id, st)
    \/ \E id \in 1..MaxOrders : DeleteOrder(id)

SpecLifecycle == InitStocked /\ [][NextLifecycle]_vars

(***************************************************************************)
(* Properties                                                              *)
(***************************************************************************)
SaleIds == 1..(nextSaleId - 1)
SalesOf(c) == {s \in DOMAIN sales : sales[s].customer_id = c}
TotalAmounts == [s \in DOMAIN sales |-> sales[s].total_amount]
HealthOf(b) == {h \in DOMAIN health : health[h].batch_id = b}
MortalityCountsOf == [h \in DOMAIN health |-> health[h].mortality_count]

\* C1: every customer's total_purchases equals the sum of total_amount over the
\* sale rows that reference the customer.
C1_LedgerInvariant ==
    \A c \in DOMAIN customers :
        customers[c].total_purchases = SumOver(TotalAmounts, SalesOf(c))

\* C2: every sale row that exists had its total_amount added to its customer's
\* total_purchases (no sale insert outlives a failed counter update).
C2_RecordSaleAllOrNothing ==
    \A s \in DOMAIN sales : s \in credited

\* C3: no sale row exists whose amount DELETE /sales/:id has already subtracted,
\* and no credited sale row is gone without its amount having been subtracted.
C3_DeleteSaleAllOrNothing ==
    \A s \in SaleIds :
        /\ s \in DOMAIN sales => s \notin debited
        /\ (s \notin DOMAIN sales /\ s \in credited) => s \in debited

\* C4: every health record with a positive mortality_count had that count
\* subtracted from its batch's current_count.
C4_RecordHealthEventAllOrNothing ==
    \A h \in DOMAIN health :
        health[h].mortality_count > 0 => h \in subtracted

\* C5: a batch PUT /batches/:id has never written has
\* current_count = initial_count - (sum of mortality_count over its health records).
C5_MortalityInvariant ==
    \A b \in DOMAIN batches \ adjusted :
        batches[b].current_count =
            batches[b].initial_count - SumOver(MortalityCountsOf, HealthOf(b))

\* C6: no batch has a negative current_count.
C6_CurrentCountNeverNegative ==
    \A b \in DOMAIN batches : batches[b].current_count >= 0

\* C7: every sale row has total_amount = quantity * unit_price.
C7_SaleTotalCorrect ==
    \A s \in DOMAIN sales :
        sales[s].total_amount = sales[s].quantity * sales[s].unit_price

\* C7 witness: a sale recorded with a different client-side total (7) and then
\* updated by PUT /sales/:id is in the table.
C7_Witness ==
    /\ resp = Response("UpdateSale", 200, "none")
    /\ \E s \in DOMAIN sales :
          /\ sales[s].payment_status = "partial"
          /\ sales[s].total_amount = 6

RECURSIVE SnapshotTotal(_)
\* The sum of quantity * unitPrice over a stored item snapshot, an item without
\* a unitPrice counting as price 0.
SnapshotTotal(snapshot) ==
    IF snapshot = <<>> THEN 0
    ELSE LET item == snapshot[Len(snapshot)]
         IN  SnapshotTotal(SubSeq(snapshot, 1, Len(snapshot) - 1))
             + item.quantity * (IF "unitPrice" \in DOMAIN item THEN item.unitPrice ELSE 0)

\* C8: every order row's total_amount is the sum over its stored items of
\* quantity * unitPrice (a missing unitPrice counting as 0).
C8_OrderTotalCorrect ==
    \A o \in DOMAIN orders :
        orders[o].total_amount = SnapshotTotal(orders[o].order_items)

\* C8 witness: an order of two items, one of them without a unitPrice, is stored
\* with the total of its items (6), not the total the client sent (7).
C8_Witness ==
    \E o \in DOMAIN orders :
        /\ Len(orders[o].order_items) = 2
        /\ \E i \in 1..2 : "unitPrice" \notin DOMAIN orders[o].order_items[i]
        /\ orders[o].total_amount = 6

\* C9: any two distinct order rows have different order_number values.
C9_OrderNumbersUnique ==
    \A o1, o2 \in DOMAIN orders :
        o1 # o2 => orders[o1].order_number # orders[o2].order_number

\* C9 witness: the generator repeated a stored number, the insert was refused,
\* and two orders are stored.
C9_Witness ==
    /\ resp = Response("PlaceOrder", 500, "SQLITE_CONSTRAINT_UNIQUE")
    /\ Cardinality(DOMAIN orders) = 2

\* C10: a valid POST /orders whose generated order_number is already stored is
\* never answered with a failure.
C10_CollisionRetried ==
    resp # Response("PlaceOrder", 500, "SQLITE_CONSTRAINT_UNIQUE")

\* C11: a step that changes the site settings (single-key or bulk update of an
\* order_price_* key) keeps every order that exists, with the item snapshot
\* (unit prices included) and the total_amount it had before the step.
C11_SettingsLeaveOrdersUntouched ==
    [][settings' # settings =>
         \A o \in DOMAIN orders :
            /\ o \in DOMAIN orders'
            /\ orders'[o].order_items = orders[o].order_items
            /\ orders'[o].total_amount = orders[o].total_amount]_vars

\* An order placed at unit price 3 (total 6) is on file after the price of
\* its product was set to "5".
C11_Witness ==
    /\ resp.op \in {"UpdateSetting", "UpdateSettings"}
    /\ resp.status = 200
    /\ settings[EggsTrayKey] = "5"
    /\ \E o \in DOMAIN orders :
          /\ orders[o].order_items[1].unitPrice = 3
          /\ orders[o].total_amount = 6

\* C12: no step changes the order_number, the item snapshot or the
\* total_amount of an order that exists; a step that changes the status of
\* one order leaves every other order as it was; and PUT /orders/:id/status
\* keeps the set of orders, changes no order but the addressed one, and of
\* that one nothing but the status.
C12_OrderFixedAtCreation ==
    [][/\ \A o \in DOMAIN orders \cap DOMAIN orders' :
             /\ orders'[o].order_number = orders[o].order_number
             /\ orders'[o].order_items = orders[o].order_items
             /\ orders'[o].total_amount = orders[o].total_amount
             /\ orders'[o].status # orders[o].status =>
                    \A p \in DOMAIN orders \ {o} :
                       p \in DOMAIN orders' /\ orders'[p] = orders[p]
       /\ \A id \in 1..MaxOrders, st \in LifecycleInputs :
             UpdateStatus(id, st) =>
                /\ DOMAIN orders' = DOMAIN orders
                /\ \A o \in DOMAIN orders :
                      /\ o # id => orders'[o] = orders[o]
                      /\ [orders'[o] EXCEPT !.status = orders[o].status] = orders[o]]_vars

\* Two orders are on file, one moved from new to delivered by the last
\* status update, the other still new.
C12_Witness ==
    /\ resp = Response("UpdateStatus", 200, "none")
    /\ statusBefore = "new"
    /\ \E o, p \in DOMAIN orders :
          /\ orders[o].status = "delivered"
          /\ orders[p].status = "new"
          /\ orders[p].order_number # orders[o].order_number

\* C13: POST /orders with an empty customerName, an empty customerPhone,
\* missing or empty items, or an item without a product or with a quantity
\* below 1 answers 400, inserts no order and attempts no notification.
\* (The validation comes before the clock is read, the suffix drawn or a
\* statement run: the draws NextOrders makes for such a request are taken.)
C13_InvalidOrderRejected ==
    [][\A body \in OrderRequests :
          (/\ \/ body.customerName = ""
              \/ body.customerPhone = ""
              \/ body.items = <<>>
              \/ \E i \in 1..Len(body.items) :
                    body.items[i].product = "" \/ body.items[i].quantity < 1
           /\ PlaceOrder(body, now, "X9Q2", "none"))
          => /\ resp' = Response("PlaceOrder", 400, "none")
             /\ orders' = orders
             /\ nextOrderId' = nextOrderId
             /\ awaitingEmail' = awaitingEmail]_vars

\* A request was rejected while one order is on file and no handler waits
\* for a notification.
C13_Witness ==
    /\ resp = Response("PlaceOrder", 400, "none")
    /\ nextOrderId = 2
    /\ DOMAIN orders = {1}
    /\ awaitingEmail = {}

\* C14: every order a step inserts has status 'new' right after the step,
\* whatever status the request carried (every request here carries
\* "delivered").
C14_NewOrderHasStatusNew ==
    [][\A o \in DOMAIN orders' \ DOMAIN orders : orders'[o].status = "new"]_vars

\* POST /orders has answered 201 for a request that carried status
\* "delivered", and the order it inserted is on file with status 'new'.
C14_Witness ==
    /\ resp = Response("PlaceOrder", 201, "none")
    /\ \A body \in OrderRequests : body.status = "delivered"
    /\ nextOrderId - 1 \in DOMAIN orders
    /\ orders[nextOrderId - 1].status = "new"

\* C15: when the lookup of the destination address throws, POST /orders
\* still answers 201 and the order it inserted is on file as inserted, the
\* other orders as they were; when the sending is rejected, the handler
\* answers 201 and no order changes.
C15_NotificationBestEffort ==
    [][/\ \A id \in awaitingEmail :
             EmailSettled(id, TRUE) => resp'.status = 201 /\ orders' = orders
       /\ \A body \in OrderRequests, t \in Timestamps, r \in RandomSuffixes :
             PlaceOrder(body, t, r, "settings") =>
                /\ resp'.status = 201
                /\ DOMAIN orders' = DOMAIN orders \cup {nextOrderId}
                /\ orders'[nextOrderId].order_number = generateOrderNumber(t, r)
                /\ orders'[nextOrderId].total_amount = SnapshotTotal(orders'[nextOrderId].order_items)
                /\ \A o \in DOMAIN orders : orders'[o] = orders[o]]_vars

\* The sending was rejected (no statement has thrown), the handler answered
\* 201 and logged the failure, and the order is on file.
C15_Witness ==
    /\ resp = Response("PlaceOrder", 201, "email")
    /\ faults = 0
    /\ orders # <<>>
    /\ \A o \in 1..(nextOrderId - 1) : o \in DOMAIN orders

\* C16: the response of POST /orders does not wait for the notification: no
\* handler that has committed its order is ever held, unanswered, until
\* sendOrderEmail settles.  (awaitingEmail holds exactly the handlers that
\* have inserted their row and answer only when the promise settles.)
C16_ResponseNotHeldByNotification ==
    awaitingEmail = {}

\* C17: PUT /orders/:id/status with a status outside {new, confirmed,
\* processing, delivered, cancelled}, a missing one included, answers 400
\* and leaves every order as it was.
C17_InvalidStatusRejected ==
    [][\A id \in 1..MaxOrders, st \in LifecycleInputs :
          (/\ st \notin {"new", "confirmed", "processing", "delivered", "cancelled"}
           /\ UpdateStatus(id, st))
          => resp' = Response("UpdateStatus", 400, "none") /\ orders' = orders]_vars

\* A status update was rejected while an order moved to confirmed earlier is
\* on file, still confirmed.
C17_Witness ==
    /\ resp = Response("UpdateStatus", 400, "none")
    /\ statusBefore = "new"
    /\ \E o \in DOMAIN orders : orders[o].status = "confirmed"

\* C18: for every order on file, whatever its status, and every one of the
\* five valid statuses t, PUT /orders/:id/status with t answers 200 and
\* leaves the order in status t: backward moves and moves out of delivered
\* or cancelled included.
C18_FreeTransitions ==
    [][\A id \in DOMAIN orders, t \in OrderStatuses :
          UpdateStatus(id, t) =>
             /\ resp' = Response("UpdateStatus", 200, "none")
             /\ id \in DOMAIN orders'
             /\ orders'[id].status = t]_vars

\* The only order on file was moved from delivered back to new.
C18_Witness ==
    /\ resp = Response("UpdateStatus", 200, "none")
    /\ statusBefore = "delivered"
    /\ DOMAIN orders = {1}
    /\ nextOrderId = 2
    /\ orders[1].status = "new"

\* C19 as stated: every change of an order's status is new -> confirmed,
\* confirmed -> processing, processing -> delivered, or a move to cancelled
\* from a status that is neither delivered nor cancelled; so the status of
\* a delivered or cancelled order never changes.
C19_TerminalLifecycle ==
    [][\A o \in DOMAIN orders \cap DOMAIN orders' :
          orders'[o].status # orders[o].status =>
             \/ <<orders[o].status, orders'[o].status>> \in
                   {<<"new", "confirmed">>, <<"confirmed", "processing">>,
                    <<"processing", "delivered">>}
             \/ /\ orders'[o].status = "cancelled"
                /\ orders[o].status \notin {"delivered", "cancelled"}]_vars

\* C19 amended: the status of an order changes only in a step of
\* PUT /orders/:id/status that answers 200, and then to one of the five valid
\* statuses, from whatever status the order had (delivered and cancelled are
\* not terminal).
C19_StatusChangesOnlyByUpdateStatus ==
    [][\A o \in DOMAIN orders \cap DOMAIN orders' :
          orders'[o].status # orders[o].status =>
             /\ resp' = Response("UpdateStatus", 200, "none")
             /\ statusBefore' = orders[o].status
             /\ orders'[o].status \in
                   {"new", "confirmed", "processing", "delivered", "cancelled"}]_vars

\* The only order on file was moved out of cancelled, to processing.
C19_Witness ==
    /\ resp = Response("UpdateStatus", 200, "none")
    /\ statusBefore = "cancelled"
    /\ DOMAIN orders = {1}
    /\ nextOrderId = 2
    /\ orders[1].status = "processing"

\* C20: DELETE /orders/:id of an order on file, whatever its status, answers
\* 200, removes that order and no other, changes no remaining order, and
\* leaves the customers (their total_purchases), the sales and the batches
\* (their current_count) as they were.
C20_DeleteOrderHardDelete ==
    [][\A id \in DOMAIN orders :
          DeleteOrder(id) =>
             /\ resp' = Response("DeleteOrder", 200, "none")
             /\ DOMAIN orders' = DOMAIN orders \ {id}
             /\ \A o \in DOMAIN orders' : orders'[o] = orders[o]
             /\ customers' = customers
             /\ sales' = sales
             /\ batches' = batches]_vars

\* The only order placed was deleted after a status update had moved it on
\* from processing; the customer's
\* total_purchases is still the 6 of the one sale and the batch still counts
\* 2 birds.
C20_Witness ==
    /\ resp = Response("DeleteOrder", 200, "none")
    /\ statusBefore = "processing"
    /\ nextOrderId = 2
    /\ orders = <<>>
    /\ customers[1].total_purchases = 6
    /\ sales[1].total_amount = 6
    /\ batches[1].current_count = 2

C22_ZeroSaleRejected ==
    [][/\ \A c \in {0} \cup CustomerIds, q \in Quantities, u \in UnitPrices :
             ((q = 0 \/ u = 0) /\ RecordSale(c, q, u, 0, "", "none"))
             => /\ resp' = Response("RecordSale", 400, "none")
                /\ sales' = sales
                /\ customers' = customers
       /\ \A s \in DOMAIN sales' : sales'[s].quantity # 0 /\ sales'[s].unit_price # 0]_vars

\* A sale was rejected while a customer and an earlier sale of 2 at 3 are on
\* file, the counter still at 6.
C22_Witness ==
    /\ resp = Response("RecordSale", 400, "none")
    /\ DOMAIN sales = {1}
    /\ sales[1].total_amount = 6
    /\ customers[sales[1].customer_id].total_purchases = 6

\* C23: every sale row has a quantity of at least 1 (POST /sales rejects a
\* quantity that is not positive before it writes).
C23_QuantityAtLeastOne ==
    \A s \in DOMAIN sales : sales[s].quantity >= 1

\* C30: PUT /sales/:id keeps the set of sales, changes no sale but the
\* addressed one, of that one nothing but the payment fields, and no
\* customer; PUT /customers/:id keeps the set of customers and every
\* customer's total_purchases, and changes no sale.
C30_EditsLeaveAmountsAlone ==
    [][/\ \A id \in 1..MaxSales, p \in PaymentUpdates :
             UpdateSale(id, p) =>
                /\ customers' = customers
                /\ DOMAIN sales' = DOMAIN sales
                /\ \A s \in DOMAIN sales :
                      /\ s # id => sales'[s] = sales[s]
                      /\ [sales'[s] EXCEPT !.payment_status = sales[s].payment_status] = sales[s]
       /\ \A id \in CustomerIds, n \in CustomerNameInputs :
             UpdateCustomer(id, n) =>
                /\ sales' = sales
                /\ DOMAIN customers' = DOMAIN customers
                /\ \A c \in DOMAIN customers :
                      customers'[c].total_purchases = customers[c].total_purchases]_vars

\* A customer was renamed after the payment status of the sale on file was
\* edited; the sale still amounts to 6 and the counter still stands at 6.
C30_Witness ==
    /\ resp = Response("UpdateCustomer", 200, "none")
    /\ DOMAIN sales = {1}
    /\ sales[1].payment_status = "partial"
    /\ sales[1].total_amount = 6
    /\ customers[sales[1].customer_id].name = "Amina K"
    /\ customers[sales[1].customer_id].total_purchases = 6

\* C25: initial_count is write-once: no step (batch creation, PUT /batches/:id,
\* POST /poultry/health) changes the initial_count of a batch that already
\* exists, and no step removes a batch.
C25_InitialCountWriteOnce ==
    [][\A b \in DOMAIN batches :
          /\ b \in DOMAIN batches'
          /\ batches'[b].initial_count = batches[b].initial_count]_vars

\* C25 witness: a batch created with 2 birds has had its current_count replaced
\* by PUT /batches/:id and a health record written against it, and still has
\* initial_count 2.
C25_Witness ==
    \E b \in DOMAIN batches :
        /\ b \in adjusted
        /\ HealthOf(b) # {}
        /\ batches[b].initial_count = 2
        /\ batches[b].current_count # 2

C24_NoLostUpdate ==
    \A c \in DOMAIN customers :
        customers[c].total_purchases =
            SumOver(TotalAmounts, SalesOf(c) \cap credited)
            - SumOver(TotalAmounts, SalesOf(c) \cap debited)

\* C24 witness: two POST /sales for customer 1 were in flight together, both
\* have answered, both rows exist and total_purchases is the sum of the two
\* amounts (6 + 6).
C24_Witness ==
    /\ \A r \in Requests :
          /\ handlers[r].op = "RecordSale"
          /\ handlers[r].pc = "done"
          /\ handlers[r].overlapped
          /\ handlers[r].customerId = 1
          /\ handlers[r].id \in DOMAIN sales
    /\ handlers["a"].id # handlers["b"].id
    /\ customers[1].total_purchases = 12

\* C29: of the /sales handlers in flight together at most one has started and
\* not yet answered (the lookup, the decrement and the row delete of one
\* DELETE /sales/:id run to completion before another handler's first
\* statement), and whenever none is in the middle, every customer's
\* total_purchases equals the sum of total_amount over the customer's sale rows.
C29_ConcurrentDeleteOnce ==
    /\ Cardinality({r \in Requests : Running(r)}) <= 1
    /\ (\A r \in Requests : ~Running(r))
       => \A c \in DOMAIN customers :
             customers[c].total_purchases = SumOver(TotalAmounts, SalesOf(c))

\* C29 witness: two DELETE /sales/:id for the same sale were in flight
\* together and both have answered; one found the row and subtracted its
\* amount, the other found none; the row is gone and the customer's
\* total_purchases is back at 0.
C29_Witness ==
    /\ \A r \in Requests :
          /\ handlers[r].op = "DeleteSale"
          /\ handlers[r].pc = "done"
          /\ handlers[r].overlapped
          /\ handlers[r].id = 1
    /\ \E r \in Requests : handlers[r].sale # <<>>
    /\ \E r \in Requests : handlers[r].sale = <<>>
    /\ 1 \in debited
    /\ 1 \notin DOMAIN sales
    /\ customers[1].total_purchases = 0

\* C27: no POST /register is answered with the generic server error (500): a
\* registration whose email a user already holds gets a client error, also
\* when two registrations for the same email are in flight together; and no
\* two users hold the same email.
C27_DuplicateIsClientError ==
    /\ ~(resp.op = "Register" /\ resp.status = 500)
    /\ \A u, v \in DOMAIN users : users[u].email = users[v].email => u = v

\* All rows of the three sources, as GET /activities would select them
AllActivityRows ==
    {[type |-> "egg", id |-> i, timestamp |-> activityRows.egg[i]] :
        i \in DOMAIN activityRows.egg}
    \cup {[type |-> "sale", id |-> i, timestamp |-> activityRows.sale[i]] :
             i \in DOMAIN activityRows.sale}
    \cup {[type |-> "health", id |-> i, timestamp |-> activityRows.health[i]] :
             i \in DOMAIN activityRows.health}

\* C28: the body of GET /activities has at most `limit` rows (20 when no limit
\* is given), its rows are rows of the three sources in descending order of
\* timestamp, and no row of the three sources that it leaves out has a
\* timestamp newer than a row it returns.
C28_FeedNewestFirst ==
    LET body == feed.body IN
    /\ Len(body) <= Limit(feed.query)
    /\ \A i \in DOMAIN body : body[i] \in AllActivityRows
    /\ \A i, j \in DOMAIN body : i < j => body[i].timestamp >= body[j].timestamp
    /\ \A row \in AllActivityRows :
          (\A i \in DOMAIN body : body[i] # row)
          => \A i \in DOMAIN body : row.timestamp <= body[i].timestamp

====
